---- MODULE Spec2Model ----
\* Client-side state of the mephala dashboard: the Pinia attack store
\* (stores/attackStore.js), the Attacks view's pagination (views/Attacks.vue),
\* the axios transport client (services/api.js) and the row renderers.
EXTENDS Integers, Sequences, FiniteSets, TLC

VARIABLES
  \* ---- attack store (src/unnamed/part_003)
  attacks,      \* ref([]): sequence of record ids, newest first
  stats,        \* ref(null)
  loading,      \* ref(false)
  error,        \* ref(null)
  calls,        \* fetchAttacks calls suspended at `await api.getAttacks`
  statsCalls,   \* number of fetchStats calls suspended at `await api.getStats`
  \* ---- Attacks view (src/unnamed/part_000, lines 68-127)
  viewAttacks,  \* const attacks = ref([])
  page,         \* ref(1)
  pages,        \* ref(1)
  total,        \* ref(0)
  filters,      \* reactive({service_type: '', attack_type: ''})
  mounted,      \* whether the onMounted hook has run
  unmounted,    \* whether the view has been unmounted (the route was left)
  loads,        \* loadAttacks calls suspended at `await api.getAttacks`
  \* ---- history of the view (not program state)
  loadIssued,   \* number of loadAttacks calls made so far
  loadResolved, \* sequence numbers of the loadAttacks calls that succeeded
  loadSource,   \* sequence number of the call whose response the table shows
  shownPage,    \* the page that call asked for (0: nothing received yet)
  unhandled,    \* rejections of loadAttacks that nothing caught
  \* ---- transport client (src/unnamed/part_002)
  token,        \* localStorage item 'token'
  requests,     \* requests sent and not yet answered
  sent,         \* number of requests sent so far (history)
  unauthorized, \* a 401 was received and no login has succeeded since (history)
  \* ---- one rendered table row (src/unnamed/part_000, lines 37-52)
  rowAttack,    \* the record of the row (v-for="attack in attacks")
  row,          \* the cells rendered for it
  feedRow,      \* the cells LiveFeed renders for it (AttackMap.vue, lines 130-144)
  \* ---- Attack Map view (src/dashboard/src/views/AttackMap.vue, lines 32-68)
  geoData,      \* ref([])
  topAttackers, \* ref([])
  markers,      \* the circle markers added to the Leaflet map, in order
  mapPc,        \* where the async onMounted callback stands
  \* ---- the store's caller
  pageSize,     \* the page_size its fetchAttacks calls ask for
  \* ---- history of the store (not program state)
  issued,       \* number of fetchAttacks calls made so far
  source,       \* sequence number of the call whose response attacks was last set from
  pushLog,      \* every record handed to addAttack, oldest first
  commitItems,  \* the response.items assigned to attacks last
  commitAt,     \* Len(pushLog) when they were assigned
  \* ---- the network
  dropped,      \* sequence numbers of the fetchAttacks calls that get no answer
  last          \* the handler step taken last

storeVars == <<attacks, stats, loading, error, calls, statsCalls>>
histVars == <<issued, source, pushLog, commitItems, commitAt>>
netVars == <<dropped>>
viewVars == <<viewAttacks, page, pages, total, filters, mounted, unmounted, loads>>
viewHist == <<loadIssued, loadResolved, loadSource, shownPage, unhandled>>
apiVars == <<token, requests, sent, unauthorized>>
rowVars == <<rowAttack, row, feedRow>>
mapVars == <<geoData, topAttackers, markers, mapPc>>
callerVars == <<pageSize>>
vars == <<storeVars, histVars, callerVars, netVars, viewVars, viewHist, apiVars, rowVars, mapVars, last>>
outsideStore == <<callerVars, netVars, viewVars, viewHist, apiVars, rowVars, mapVars>>
outsideView == <<storeVars, histVars, callerVars, netVars, apiVars, rowVars, mapVars>>
outsideApi == <<storeVars, histVars, callerVars, netVars, viewVars, viewHist, rowVars, mapVars>>
outsideRow == <<storeVars, histVars, callerVars, netVars, viewVars, viewHist, apiVars, mapVars>>
outsideMap == <<storeVars, histVars, callerVars, netVars, viewVars, viewHist, apiVars, rowVars>>

\* ------------------------------------------------------------------ bounds
MaxFetch == 2        \* fetchAttacks calls per behaviour
MaxStats == 1        \* fetchStats calls per behaviour
MaxLive == 2         \* addAttack calls per behaviour of Spec
MaxRec == 2          \* record ids 1..MaxRec arrive over the live channel in Spec
MaxLoads == 3        \* loadAttacks calls per behaviour of SpecView
MaxPages == 2        \* the backend reports 0..MaxPages pages
MaxCalls == 3        \* requests sent per behaviour of SpecApi
MaxSeverity == 10    \* severities 0..MaxSeverity are rendered in SpecRow
MaxGeo == 2          \* entries in a /stats/geographic answer
MaxFill == 52        \* addAttack calls per behaviour of SpecFill
BigPage == 101       \* a page_size above the live cap, asked for in SpecFill
MaxBurst == 150      \* addAttack calls per behaviour of SpecLive
MaxDup == 1          \* re-deliveries of the latest record per behaviour of SpecLive

\* ------------------------------------------------------- program constants
LiveCap == 100       \* addAttack keeps at most this many records
RecentCap == 50      \* recentAttacks shows at most this many records

Null == "null"
Min(a, b) == IF a < b THEN a ELSE b
Max(a, b) == IF a < b THEN b ELSE a

\* Array.prototype.slice(start, end) for 0 <= start, 0 <= end (0-based, end
\* exclusive, both clamped to the length).
Slice(arr, start, end) ==
  SubSeq(arr, Min(start, Len(arr)) + 1, Min(end, Len(arr)))

\* Array.prototype.unshift(x): x becomes element 0.
Unshift(arr, x) == <<x>> \o arr

\* ------------------------------------------------------------ attack store
\* What the backend may answer to GET /attacks: a page of records.
PageItems == {<<>>, <<1, 2>>, <<2, 3>>}
Messages == {"Network Error", "Request failed with status code 500"}
StatsSnapshots == {[total_attacks |-> 6]}
PageSizes == {50}

StoreInit ==
  /\ attacks = <<>>
  /\ stats = Null
  /\ loading = FALSE
  /\ error = Null
  /\ calls = {}
  /\ statsCalls = 0

CallerInit == pageSize \in PageSizes

HistInit ==
  /\ issued = 0
  /\ source = 0
  /\ pushLog = <<>>
  /\ commitItems = <<>>
  /\ commitAt = 0
  /\ dropped = {}
  /\ last = [op |-> "init"]

\* A slip recentAttacks could have: slice(-50), the last 50 instead of the first.
recentAttacksTail == SubSeq(attacks, Max(1, Len(attacks) - RecentCap + 1), Len(attacks))

\* const recentAttacks = computed(() => attacks.value.slice(0, 50))
recentAttacks == Slice(attacks, 0, RecentCap)

\* fetchAttacks(params) up to its await: loading.value = true, then the request
\* is in flight.
fetchAttacks(params) ==
  /\ issued < MaxFetch
  /\ loading' = TRUE
  /\ calls' = calls \cup {[seq |-> issued + 1, params |-> params]}
  /\ issued' = issued + 1
  /\ last' = [op |-> "fetchAttacks", seq |-> issued + 1]
  /\ UNCHANGED <<attacks, stats, error, statsCalls, source, pushLog, commitItems, commitAt, outsideStore>>

\* A slip the success path could have: the page is added to the list held
\* instead of replacing it.
fetchAttacksResolveKeep(c, items) ==
  /\ c \in calls
  /\ calls' = calls \ {c}
  /\ attacks' = attacks \o items
  /\ loading' = FALSE
  /\ source' = c.seq
  /\ commitItems' = items
  /\ commitAt' = Len(pushLog)
  /\ last' = [op |-> "fetchAttacksResolve", seq |-> c.seq]
  /\ UNCHANGED <<stats, error, statsCalls, issued, pushLog, outsideStore>>

\* The awaited request of call c succeeds with `items`: attacks.value =
\* response.items, then the finally block.
fetchAttacksResolve(c, items) ==
  /\ c \in calls
  /\ calls' = calls \ {c}
  /\ attacks' = items
  /\ loading' = FALSE
  /\ source' = c.seq
  /\ commitItems' = items
  /\ commitAt' = Len(pushLog)
  /\ last' = [op |-> "fetchAttacksResolve", seq |-> c.seq]
  /\ UNCHANGED <<stats, error, statsCalls, issued, pushLog, outsideStore>>

\* A slip the catch block could have: the list is blanked on failure.
fetchAttacksRejectBlank(c, message) ==
  /\ c \in calls
  /\ calls' = calls \ {c}
  /\ attacks' = <<>>
  /\ error' = message
  /\ loading' = FALSE
  /\ last' = [op |-> "fetchAttacksReject", seq |-> c.seq, message |-> message]
  /\ UNCHANGED <<stats, statsCalls, issued, source, pushLog, commitItems, commitAt, outsideStore>>

\* The awaited request of call c fails: the catch block, then the finally block.
fetchAttacksReject(c, message) ==
  /\ c \in calls
  /\ calls' = calls \ {c}
  /\ error' = message
  /\ loading' = FALSE
  /\ last' = [op |-> "fetchAttacksReject", seq |-> c.seq, message |-> message]
  /\ UNCHANGED <<attacks, stats, statsCalls, issued, source, pushLog, commitItems, commitAt, outsideStore>>

\* fetchStats() up to its await.
fetchStats ==
  /\ statsCalls < MaxStats
  /\ statsCalls' = statsCalls + 1
  /\ last' = [op |-> "fetchStats"]
  /\ UNCHANGED <<attacks, stats, loading, error, calls, issued, source, pushLog, commitItems, commitAt, outsideStore>>

fetchStatsResolve(s) ==
  /\ statsCalls > 0
  /\ statsCalls' = statsCalls - 1
  /\ stats' = s
  /\ last' = [op |-> "fetchStatsResolve"]
  /\ UNCHANGED <<attacks, loading, error, calls, issued, source, pushLog, commitItems, commitAt, outsideStore>>

fetchStatsReject(message) ==
  /\ statsCalls > 0
  /\ statsCalls' = statsCalls - 1
  /\ error' = message
  /\ last' = [op |-> "fetchStatsReject", message |-> message]
  /\ UNCHANGED <<attacks, stats, loading, calls, issued, source, pushLog, commitItems, commitAt, outsideStore>>

\* A slip addAttack could have: the record is added but the list is never cut.
addAttackUncut(attack) ==
  /\ attacks' = Unshift(attacks, attack)
  /\ pushLog' = Append(pushLog, attack)
  /\ last' = [op |-> "addAttack", attack |-> attack]
  /\ UNCHANGED <<stats, loading, error, calls, statsCalls, issued, source, commitItems, commitAt, outsideStore>>

\* addAttack(attack): unshift, then keep the first 100.
addAttack(attack) ==
  /\ attacks' = (LET a == Unshift(attacks, attack)
                 IN  IF Len(a) > LiveCap THEN Slice(a, 0, LiveCap) ELSE a)
  /\ pushLog' = Append(pushLog, attack)
  /\ last' = [op |-> "addAttack", attack |-> attack]
  /\ UNCHANGED <<stats, loading, error, calls, statsCalls, issued, source, commitItems, commitAt, outsideStore>>

StoreNext ==
  \/ \E ps \in PageSizes : fetchAttacks([page_size |-> ps])
  \/ \E c \in calls, items \in PageItems : fetchAttacksResolve(c, items)
  \/ \E c \in calls, m \in Messages : fetchAttacksReject(c, m)
  \/ fetchStats
  \/ \E s \in StatsSnapshots : fetchStatsResolve(s)
  \/ \E m \in Messages : fetchStatsReject(m)
  \/ \E r \in 1..MaxRec : Len(pushLog) < MaxLive /\ addAttack(r)

\* ---- a burst on the live channel: the backend numbers its records, and the
\* channel may deliver the latest one again (at-least-once delivery).
Redelivered(log) == Cardinality({i \in 2..Len(log) : log[i] = log[i - 1]})

LiveInputs ==
  {Len(pushLog) + 1} \cup
  (IF pushLog # <<>> /\ Redelivered(pushLog) < MaxDup
     THEN {pushLog[Len(pushLog)]} ELSE {})

LiveNext == \E r \in LiveInputs : Len(pushLog) < MaxBurst /\ addAttack(r)

\* ---- a network that may leave a request unanswered. The client is created
\* without a timeout (axios's default, 0, is none), so nothing ever completes
\* such a call.
drop(c) ==
  /\ c \in calls
  /\ c.seq \notin dropped
  /\ dropped' = dropped \cup {c.seq}
  /\ last' = [op |-> "drop", seq |-> c.seq]
  /\ UNCHANGED <<storeVars, histVars, callerVars, viewVars, viewHist, apiVars, rowVars, mapVars>>

\* The answer to a request that was not dropped arrives.
Answer ==
  \E c \in calls :
    /\ c.seq \notin dropped
    /\ \/ \E items \in PageItems : fetchAttacksResolve(c, items)
       \/ \E m \in Messages : fetchAttacksReject(c, m)

NetNext ==
  \/ \E ps \in PageSizes : fetchAttacks([page_size |-> ps])
  \/ \E c \in calls : drop(c)
  \/ Answer
  \/ \E r \in 1..MaxRec : Len(pushLog) < MaxLive /\ addAttack(r)

\* ---- pages and live records together: every fetchAttacks call asks for
\* pageSize records, the backend answers with an empty, a short or a full page
\* (records 1001, 1002, ...), and the channel delivers records 1, 2, ...
PageOf(n) == [i \in 1..n |-> 1000 + i]
PageLengths(c) == {0, 2, c.params.page_size}

FillNext ==
  \/ fetchAttacks([page_size |-> pageSize])
  \/ \E c \in calls : \E n \in PageLengths(c) : fetchAttacksResolve(c, PageOf(n))
  \/ Len(pushLog) < MaxFill /\ addAttack(Len(pushLog) + 1)


\* ------------------------------------------------------------ Attacks view
\* The <option> values of the two filter selects.
ServiceOptions == {"", "ssh", "http", "ftp"}
AttackTypeOptions == {"", "brute_force", "sql_injection", "xss", "rce"}

\* What the backend may answer to GET /attacks: {items, pages, total}.
ViewItems == {<<>>, <<1, 2>>}
Responses ==
  {[items |-> its, pages |-> n, total |-> 2 * n] :
     its \in ViewItems, n \in 0..MaxPages}

ViewInit ==
  /\ viewAttacks = <<>>
  /\ page = 1
  /\ pages = 1
  /\ total = 0
  /\ filters = [service_type |-> "", attack_type |-> ""]
  /\ mounted = FALSE
  /\ unmounted = FALSE
  /\ loads = {}
  /\ loadIssued = 0
  /\ loadResolved = {}
  /\ loadSource = 0
  /\ shownPage = 0
  /\ unhandled = 0

\* { page: page.value, ...filters }, read when loadAttacks is called with the
\* view at page p and filters f.
RequestParams(p, f) ==
  [page |-> p, service_type |-> f.service_type, attack_type |-> f.attack_type]

\* loadAttacks() up to its await, called with the view at page p and filters f.
loadAttacks(p, f) ==
  /\ loadIssued < MaxLoads
  /\ loads' = loads \cup {[seq |-> loadIssued + 1, params |-> RequestParams(p, f)]}
  /\ loadIssued' = loadIssued + 1

\* onMounted(loadAttacks)
onMounted ==
  /\ ~mounted
  /\ ~unmounted
  /\ mounted' = TRUE
  /\ loadAttacks(page, filters)
  /\ last' = [op |-> "onMounted", page |-> page]
  /\ UNCHANGED <<viewAttacks, page, pages, total, filters>>
  /\ UNCHANGED <<loadResolved, loadSource, shownPage, unhandled, unmounted, outsideView>>

\* The awaited request of call c succeeds with response r: the three
\* assignments after the await.
loadAttacksResolve(c, r) ==
  /\ c \in loads
  /\ loads' = loads \ {c}
  /\ viewAttacks' = r.items
  /\ pages' = r.pages
  /\ total' = r.total
  /\ loadResolved' = loadResolved \cup {c.seq}
  /\ loadSource' = c.seq
  /\ shownPage' = c.params.page
  /\ last' = [op |-> "loadAttacksResolve", seq |-> c.seq]
  /\ UNCHANGED <<page, filters, mounted, loadIssued, unhandled, unmounted, outsideView>>

\* The awaited request of call c fails: loadAttacks has no try, so the promise
\* it returned rejects and no caller handles it.
loadAttacksReject(c) ==
  /\ c \in loads
  /\ loads' = loads \ {c}
  /\ unhandled' = unhandled + 1
  /\ last' = [op |-> "loadAttacksReject", seq |-> c.seq]
  /\ UNCHANGED <<viewAttacks, page, pages, total, filters, mounted>>
  /\ UNCHANGED <<loadIssued, loadResolved, loadSource, shownPage, unmounted, outsideView>>

\* A slip prevPage could have: the bound tested as page >= 1.
prevPageFromOne ==
  /\ mounted
  /\ IF page >= 1
       THEN /\ page' = page - 1
            /\ loadAttacks(page - 1, filters)
       ELSE UNCHANGED <<page, loads, loadIssued>>
  /\ last' = [op |-> "prevPage", page |-> page]
  /\ UNCHANGED <<viewAttacks, pages, total, filters, mounted>>
  /\ UNCHANGED <<loadResolved, loadSource, shownPage, unhandled, unmounted, outsideView>>

\* prevPage()
prevPage ==
  /\ mounted
  /\ IF page > 1
       THEN /\ page' = page - 1
            /\ loadAttacks(page - 1, filters)
       ELSE UNCHANGED <<page, loads, loadIssued>>
  /\ last' = [op |-> "prevPage", page |-> page]
  /\ UNCHANGED <<viewAttacks, pages, total, filters, mounted>>
  /\ UNCHANGED <<loadResolved, loadSource, shownPage, unhandled, unmounted, outsideView>>

\* nextPage()
nextPage ==
  /\ mounted
  /\ IF page < pages
       THEN /\ page' = page + 1
            /\ loadAttacks(page + 1, filters)
       ELSE UNCHANGED <<page, loads, loadIssued>>
  /\ last' = [op |-> "nextPage", page |-> page]
  /\ UNCHANGED <<viewAttacks, pages, total, filters, mounted>>
  /\ UNCHANGED <<loadResolved, loadSource, shownPage, unhandled, unmounted, outsideView>>

\* A filter select changes to `value`: v-model writes filters[field], then
\* @change="loadAttacks" runs.
changeFilter(field, value) ==
  /\ mounted
  /\ value # filters[field]
  /\ filters' = [filters EXCEPT ![field] = value]
  /\ loadAttacks(page, [filters EXCEPT ![field] = value])
  /\ last' = [op |-> "changeFilter", page |-> page, field |-> field]
  /\ UNCHANGED <<viewAttacks, page, pages, total, mounted>>
  /\ UNCHANGED <<loadResolved, loadSource, shownPage, unhandled, unmounted, outsideView>>

\* The router leaves /attacks: the view is unmounted. It registers no
\* onUnmounted hook, so nothing else happens.
unmount ==
  /\ mounted
  /\ mounted' = FALSE
  /\ unmounted' = TRUE
  /\ last' = [op |-> "unmount"]
  /\ UNCHANGED <<viewAttacks, page, pages, total, filters, loads, viewHist, outsideView>>

ViewNext ==
  \/ onMounted
  \/ prevPage
  \/ nextPage
  \/ \E v \in ServiceOptions : changeFilter("service_type", v)
  \/ \E v \in AttackTypeOptions : changeFilter("attack_type", v)
  \/ \E c \in loads, r \in Responses : loadAttacksResolve(c, r)
  \/ \E c \in loads : loadAttacksReject(c)
  \/ unmount


\* ------------------------------------------------------- transport client
\* The paths the exported methods request: getAttacks, getAttack(1), getStats,
\* getTimeline, getGeoData, getTopAttackers, getAttackTypes.
GetPaths ==
  {"/attacks", "/attacks/1", "/stats/overview", "/stats/timeline",
   "/stats/geographic", "/stats/top-attackers", "/stats/attack-types"}
LoginPath == "/auth/login"
\* access_token values the backend may issue.
Tokens == {"t1", "t2"}
\* Status codes of a failed request.
FailureStatuses == {401, 500}

ApiInit ==
  /\ token = Null
  /\ requests = {}
  /\ sent = 0
  /\ unauthorized = FALSE

\* client.interceptors.request: the Authorization header of a request sent now
\* (Null: no header).
Bearer(t) == CASE t = "t1" -> "Bearer t1" [] t = "t2" -> "Bearer t2"
Authorization == IF token # Null THEN Bearer(token) ELSE Null

\* client.get / client.post up to the await: the request leaves with the
\* header the interceptor gave it.
send(path) ==
  /\ sent < MaxCalls
  /\ requests' = requests \cup
       {[id |-> sent + 1, path |-> path, authorization |-> Authorization,
         after401 |-> unauthorized]}
  /\ sent' = sent + 1
  /\ last' = [op |-> "send", path |-> path]
  /\ UNCHANGED <<token, unauthorized, outsideApi>>

\* A get method's request is answered 2xx: return response.data.
getResolve(r) ==
  /\ r \in requests
  /\ r.path # LoginPath
  /\ requests' = requests \ {r}
  /\ last' = [op |-> "getResolve", id |-> r.id]
  /\ UNCHANGED <<token, sent, unauthorized, outsideApi>>

\* login's request is answered 2xx with access_token t:
\* localStorage.setItem('token', response.data.access_token).
loginResolve(r, t) ==
  /\ r \in requests
  /\ r.path = LoginPath
  /\ requests' = requests \ {r}
  /\ token' = t
  /\ unauthorized' = FALSE
  /\ last' = [op |-> "loginResolve", id |-> r.id]
  /\ UNCHANGED <<sent, outsideApi>>

\* Any request is answered with a failure status: axios rejects, and the method
\* (which has no catch, and the client no response interceptor) rejects with it.
reject(r, status) ==
  /\ r \in requests
  /\ requests' = requests \ {r}
  /\ unauthorized' = (unauthorized \/ status = 401)
  /\ last' = [op |-> "reject", id |-> r.id, status |-> status]
  /\ UNCHANGED <<token, sent, outsideApi>>

ApiNext ==
  \/ \E path \in GetPaths : send(path)
  \/ send(LoginPath)
  \/ \E r \in requests : getResolve(r)
  \/ \E r \in requests, t \in Tokens : loginResolve(r, t)
  \/ \E r \in requests, st \in FailureStatuses : reject(r, st)

\* -------------------------------------------------------------- table row
Absent == "undefined"
AttackRecords ==
  [severity : 0..MaxSeverity,
   attack_type : {Absent, "brute_force", "unknown"},
   service_type : {"ssh", "http", "ftp", "telnet"}]

RowInit ==
  /\ rowAttack = Null
  /\ row = Null
  /\ feedRow = Null

\* A slip severityClass could have: the top boundary tested with >.
severityClassStrict(severity) ==
  IF severity > 8 THEN "severity-critical font-bold"
  ELSE IF severity >= 6 THEN "severity-high"
  ELSE IF severity >= 4 THEN "severity-medium"
  ELSE "severity-low"

\* function severityClass(severity)
severityClass(severity) ==
  IF severity >= 8 THEN "severity-critical font-bold"
  ELSE IF severity >= 6 THEN "severity-high"
  ELSE IF severity >= 4 THEN "severity-medium"
  ELSE "severity-low"

\* function serviceClass(service): classes[service] || 'bg-gray-600'
serviceClass(service) ==
  CASE service = "ssh" -> "bg-blue-600"
    [] service = "http" -> "bg-green-600"
    [] service = "ftp" -> "bg-purple-600"
    [] OTHER -> "bg-gray-600"

\* a || b for the string-or-undefined values of the template.
OrElse(a, b) == IF a = Absent \/ a = "" THEN b ELSE a

\* The <tr> of one attack: the Service, Type and Severity cells.
renderRow ==
  /\ row' = [service_class |-> serviceClass(rowAttack.service_type),
             type |-> OrElse(rowAttack.attack_type, "unknown"),
             severity_class |-> severityClass(rowAttack.severity),
             severity |-> rowAttack.severity]
  /\ last' = [op |-> "renderRow"]
  /\ UNCHANGED <<rowAttack, feedRow, outsideRow>>

\* LiveFeed: function severityDot(severity)
severityDot(severity) ==
  IF severity >= 8 THEN "bg-red-500"
  ELSE IF severity >= 5 THEN "bg-yellow-500"
  ELSE "bg-green-500"

\* LiveFeed: function serviceClass(service): {...}[service] || 'bg-gray-600'
feedServiceClass(service) ==
  CASE service = "ssh" -> "bg-blue-600"
    [] service = "http" -> "bg-green-600"
    [] service = "ftp" -> "bg-purple-600"
    [] OTHER -> "bg-gray-600"

\* LiveFeed: the entry of one attack: the dot, the service badge and the type.
renderFeedRow ==
  /\ feedRow' = [dot |-> severityDot(rowAttack.severity),
                 service_class |-> feedServiceClass(rowAttack.service_type),
                 type |-> OrElse(rowAttack.attack_type, "scanning")]
  /\ last' = [op |-> "renderFeedRow"]
  /\ UNCHANGED <<rowAttack, row, outsideRow>>

RowNext == renderRow \/ renderFeedRow


\* -------------------------------------------------------- Attack Map view
\* latitude / longitude of an entry the backend could not locate (null).
NoCoord == 999
Coords == {NoCoord, 0, 48}
GeoPoints ==
  {[country_code |-> cc, country_name |-> cc, count |-> n,
    latitude |-> la, longitude |-> lo] :
     cc \in {"FR", "US"}, n \in {20, 400}, la \in Coords, lo \in Coords}
SeqsUpTo(S, n) == UNION {[1..k -> S] : k \in 0..n}
\* The backend groups by country: the codes of one answer are distinct.
GeoResponses ==
  {data \in SeqsUpTo(GeoPoints, MaxGeo) :
     \A i, j \in 1..Len(data) : data[i].country_code = data[j].country_code => i = j}
TopResponses == {<<>>, <<[ip |-> "10.0.0.1", attack_count |-> 3]>>}

MapInit ==
  /\ geoData = <<>>
  /\ topAttackers = <<>>
  /\ markers = <<>>
  /\ mapPc = "created"

\* A JavaScript number-or-null used as a condition: null and 0 are falsy.
Truthy(x) == x # NoCoord /\ x # 0

\* A slip the marker test could have: || for &&.
PlacedOnEither(point) == Truthy(point.latitude) \/ Truthy(point.longitude)

\* if (point.latitude && point.longitude)
Placed(point) == Truthy(point.latitude) /\ Truthy(point.longitude)

\* The circle marker of entry i: Math.min(Math.max(point.count / 10, 5), 30).
Marker(i, point) ==
  [index |-> i,
   latlng |-> <<point.latitude, point.longitude>>,
   radius |-> Min(Max(point.count \div 10, 5), 30),
   popup |-> point.country_name]

\* geoData.value.forEach(point => { if (...) L.circleMarker(...).addTo(map) })
RECURSIVE AddMarkers(_, _, _)
AddMarkers(data, i, placed) ==
  IF i > Len(data) THEN placed
  ELSE AddMarkers(data, i + 1,
         IF Placed(data[i]) THEN Append(placed, Marker(i, data[i])) ELSE placed)

\* The "Top Attack Origins" list: one line per element of geoData.
geoList == [i \in 1..Len(geoData) |->
              [name |-> geoData[i].country_name, count |-> geoData[i].count]]

\* onMounted up to its first await: the map is created, GET /stats/geographic
\* is in flight.
mapMounted ==
  /\ mapPc = "created"
  /\ mapPc' = "geo"
  /\ last' = [op |-> "mapMounted"]
  /\ UNCHANGED <<geoData, topAttackers, markers, outsideMap>>

\* geoData.value = await api.getGeoData(); then GET /stats/top-attackers is in
\* flight.
geoResolve(data) ==
  /\ mapPc = "geo"
  /\ geoData' = data
  /\ mapPc' = "top"
  /\ last' = [op |-> "geoResolve"]
  /\ UNCHANGED <<topAttackers, markers, outsideMap>>

\* topAttackers.value = await api.getTopAttackers(); then the forEach.
topResolve(data) ==
  /\ mapPc = "top"
  /\ topAttackers' = data
  /\ markers' = AddMarkers(geoData, 1, markers)
  /\ mapPc' = "done"
  /\ last' = [op |-> "topResolve"]
  /\ UNCHANGED <<geoData, outsideMap>>

\* Either request fails: the callback rejects where it stands.
mapReject ==
  /\ mapPc \in {"geo", "top"}
  /\ mapPc' = "failed"
  /\ last' = [op |-> "mapReject"]
  /\ UNCHANGED <<geoData, topAttackers, markers, outsideMap>>

MapNext ==
  \/ mapMounted
  \/ \E data \in GeoResponses : geoResolve(data)
  \/ \E data \in TopResponses : topResolve(data)
  \/ mapReject

Init == StoreInit /\ HistInit /\ CallerInit /\ ViewInit /\ ApiInit /\ RowInit /\ MapInit
\* The caller asks for pages of the Dashboard's size or of BigPage records.
InitFill ==
  /\ StoreInit /\ HistInit /\ ViewInit /\ ApiInit /\ RowInit /\ MapInit
  /\ pageSize \in PageSizes \cup {BigPage}
\* The row renderers are checked on every record of AttackRecords.
InitRow ==
  /\ StoreInit /\ HistInit /\ CallerInit /\ ViewInit /\ ApiInit
  /\ rowAttack \in AttackRecords
  /\ row = Null
  /\ feedRow = Null
  /\ MapInit
Next == StoreNext
Spec == Init /\ [][Next]_vars
SpecLive == Init /\ [][LiveNext]_vars
SpecView == Init /\ [][ViewNext]_vars
SpecApi == Init /\ [][ApiNext]_vars
SpecRow == InitRow /\ [][RowNext]_vars
SpecFill == InitFill /\ [][FillNext]_vars
SpecMap == Init /\ [][MapNext]_vars
\* The event loop runs the continuation of every request that is answered.
SpecNet == Init /\ [][NetNext]_vars /\ WF_vars(Answer)

\* ================================================================ claims

\* C2: addAttack prepends and never leaves more than 100 records: after n pushes
\* onto the empty store, attacks is the latest min(n, 100) pushed records,
\* newest first.
C2_LiveRingNewestFirst ==
  LET n == Len(pushLog) IN
    /\ Len(attacks) = Min(n, LiveCap)
    /\ Len(attacks) <= 100
    /\ \A i \in 1..Len(attacks) : attacks[i] = pushLog[n - i + 1]

\* C2 happens: 150 pushes were made, 100 records are held, the oldest 50 are gone.
C2_Witness ==
  /\ Len(pushLog) = 150
  /\ Len(attacks) = 100
  /\ attacks[100] = pushLog[51]
  /\ attacks[1] = pushLog[150]

\* C3: recentAttacks is the first min(50, attacks.length) elements of attacks,
\* in the same order.
C3_RecentIsPrefix ==
  /\ Len(recentAttacks) = Min(50, Len(attacks))
  /\ \A i \in 1..Len(recentAttacks) : recentAttacks[i] = attacks[i]

\* C3 happens with more than 50 records held, and with fewer.
C3_Witness == Len(attacks) > 50 /\ Len(recentAttacks) = 50

\* C7: a failed page fetch sets error to the failure message and leaves the
\* attacks held before untouched.
C7_FailureKeepsAttacks ==
  [][(last'.op = "fetchAttacksReject" /\ last' # last)
       => (error' = last'.message /\ attacks' = attacks)]_vars

\* C7 happens: a fetch failed while the store held records.
C7_Witness ==
  /\ last.op = "fetchAttacksReject"
  /\ attacks # <<>>
  /\ error = last.message

\* C8 (as claimed): when a page fetch succeeds, loading is false and error is
\* cleared.
C8_SuccessClearsError ==
  last.op = "fetchAttacksResolve" => (loading = FALSE /\ error = Null)

\* C10 (as claimed): a push of a record whose id is that of the record pushed
\* last leaves attacks unchanged.
C10_DuplicatePushIgnored ==
  [][(/\ last'.op = "addAttack"
      /\ pushLog # <<>>
      /\ pushLog' = Append(pushLog, pushLog[Len(pushLog)]))
       => attacks' = attacks]_vars

\* C1 (as claimed): the table shows the response of the newest call that has
\* resolved; a response that arrives after a newer call's response never
\* overwrites it.
C1_LatestResponseWins ==
  \A s \in loadResolved : s <= loadSource

\* C4: previous() at page 1 and next() at page = pages change nothing and issue
\* no fetch.
C4_OutOfRangeIsNoOp ==
  [][(\/ last'.op = "prevPage" /\ page = 1
      \/ last'.op = "nextPage" /\ page = pages)
       => UNCHANGED <<page, pages, total, viewAttacks, loads, loadIssued>>]_vars

\* C4 happens: next() was called on the last of several pages, with a page shown.
C4_Witness ==
  /\ last.op = "nextPage"
  /\ last.page = pages
  /\ page = pages
  /\ pages > 1
  /\ loadSource > 0

\* C5 (as claimed): a filter change sets page to 1 and issues exactly one fetch,
\* for page 1 with the new filter values.
C5_FilterChangeResetsPage ==
  [][last'.op = "changeFilter"
       => /\ page' = 1
          /\ loadIssued' = loadIssued + 1
          /\ loads' = loads \cup
               {[seq |-> loadIssued + 1, params |-> RequestParams(1, filters')]}]_vars

\* C6: severityClass is defined on 0..10 and gives critical for 8 and above,
\* high for 6..7, medium for 4..5 and low for 0..3.
C6_SeverityBoundaries ==
  last.op = "renderRow" =>
    /\ row.severity \in 0..3 => row.severity_class = "severity-low"
    /\ row.severity \in 4..5 => row.severity_class = "severity-medium"
    /\ row.severity \in 6..7 => row.severity_class = "severity-high"
    /\ row.severity >= 8 => row.severity_class = "severity-critical font-bold"

\* C6 happens: the row of a severity-8 record was rendered.
C6_Witness ==
  /\ last.op = "renderRow"
  /\ rowAttack.severity = 8
  /\ row.severity_class = "severity-critical font-bold"

\* C9 (as claimed): once a call was answered 401, the credential is gone and
\* every call sent before the next successful login carries no Authorization
\* header.
C9_UnauthorizedClearsToken ==
  /\ unauthorized => token = Null
  /\ \A r \in requests : r.after401 => r.authorization = Null

\* C11: with pages of at most pageSize records and live pushes interleaved in
\* any order, attacks never holds more than max(pageSize, 100) records.
C11_LengthBounded ==
  Len(attacks) <= Max(pageSize, 100)

\* C11 happens: a full page of 50 was committed and 51 pushes followed, so the
\* list was cut back to 100 and its last element is the page's 49th record.
C11_Witness ==
  /\ pageSize = 50
  /\ source > 0
  /\ Len(attacks) = 100
  /\ attacks[100] = 1049
  /\ attacks[1] < 1000

\* C12 (as claimed): in every state of the Attacks view 1 <= page <= pages; a
\* response reporting pages = 0 leaves pages = 1 and page = 1.
C12_PageWithinPages ==
  1 <= page /\ page <= pages

\* C13 (as claimed): the feed draws its severity boundaries where the table
\* does: for the record shown and any severity s of 0..10, the feed gives s
\* another dot than the record's exactly when the table gives s another class.
C13_FeedUsesTableBoundaries ==
  last.op = "renderFeedRow" =>
    \A s \in 0..10 :
      (severityClass(s) # severityClass(rowAttack.severity))
        <=> (severityDot(s) # feedRow.dot)

\* C18 (as claimed): in the table and in the feed, a record without attack_type
\* and a record whose attack_type is "unknown" both show the text "unknown".
C18_AbsentTypeShownAsUnknown ==
  rowAttack.attack_type \in {Absent, "unknown"} =>
    /\ last.op = "renderRow" => row.type = "unknown"
    /\ last.op = "renderFeedRow" => feedRow.type = "unknown"

\* C14 (as claimed): a failed fetch started by a view ends as the store's error
\* string, and its rejection is caught.
C14_FailuresBecomeStoreError ==
  last.op = "loadAttacksReject" => (unhandled = 0 /\ error # Null)

\* C15 (as claimed): once the view is unmounted, the completion of a fetch it
\* issued writes nothing.
C15_UnmountCancelsLoads ==
  [][unmounted =>
       UNCHANGED <<viewAttacks, pages, total, attacks, stats, loading, error>>]_vars

\* C16 (as claimed): every fetch issued completes, with a result or a failure,
\* so loading, once true, becomes false again.
C16_LoadingEnds == loading ~> ~loading

NewestFirst(log) == [i \in 1..Len(log) |-> log[Len(log) - i + 1]]

\* C19: when a fetch commits, attacks is exactly the response's items (records
\* pushed before that are gone), and the records pushed since are in front of
\* those items, newest first (addAttack keeping the first 100 of the result).
C19_CommitThenPrepend ==
  source > 0 =>
    LET new == SubSeq(pushLog, commitAt + 1, Len(pushLog)) IN
      IF new = <<>>
        THEN attacks = commitItems
        ELSE attacks = Slice(NewestFirst(new) \o commitItems, 0, LiveCap)

\* C19 happens: records were pushed before a page was committed, and others
\* after it.
C19_Witness ==
  /\ source > 0
  /\ commitAt > 0
  /\ Len(pushLog) > commitAt + 1
  /\ commitItems # <<>>
  /\ Len(attacks) = Len(pushLog) - commitAt + Len(commitItems)

\* C20 (as claimed): loading is true whenever a fetchAttacks call is in flight.
C20_LoadingWhileInFlight ==
  calls # {} => loading = TRUE

\* C17: an entry without a latitude or without a longitude gets no marker, and
\* every entry of the answer, located or not, has its line in the list of
\* origins.
C17_UnlocatedListedNotPlaced ==
  /\ \A m \in {markers[k] : k \in 1..Len(markers)} :
       /\ geoData[m.index].latitude # NoCoord
       /\ geoData[m.index].longitude # NoCoord
  /\ Len(geoList) = Len(geoData)
  /\ \A i \in 1..Len(geoData) :
       geoList[i] = [name |-> geoData[i].country_name, count |-> geoData[i].count]

\* C17 happens: the markers were added for an answer holding a located entry
\* and one without longitude; one marker stands and both are listed.
C17_Witness ==
  /\ mapPc = "done"
  /\ Len(geoData) = 2
  /\ geoData[1].latitude = 48 /\ geoData[1].longitude = NoCoord
  /\ geoData[2].latitude = 48 /\ geoData[2].longitude = 48
  /\ Len(markers) = 1
  /\ markers[1].index = 2
  /\ Len(geoList) = 2

\* C21 (as claimed): in the Attacks view, whenever no fetch is in flight, the
\* page number shown is the page asked for by the request whose response
\* filled the table; a failed fetch started by next() or previous() does not
\* leave page changed over the earlier page's attacks.
C21_PageMatchesShown ==
  (loads = {} /\ loadSource > 0) => page = shownPage
====
